---- MODULE Spec2Model ----
(***************************************************************************)
(* Model of netlify/functions/generate-risk.js: one invocation of          *)
(* exports.handler, the upstream Gemini endpoint it calls through fetch,   *)
(* and the 20-second abort timer.                                          *)
(*                                                                         *)
(* JavaScript values are tagged records, so that values of different       *)
(* types can be compared: Str, Num, Bool, Null, Undefined, Arr, Obj.       *)
(* Texts that may carry the credential (the upstream URL, error messages,  *)
(* log lines) are TLA+ strings, built and cut as the code builds and cuts  *)
(* them.                                                                   *)
(***************************************************************************)
EXTENDS Integers, Sequences, FiniteSets, TLC

VARIABLES
    pc,         \* position of the handler: "start", "await_fetch", "await_json", "done"
    event,      \* the inbound event: [httpMethod, body]
    envKey,     \* process.env.GEMINI_API_KEY
    request,    \* upstream requests issued through fetch (a sequence, at most one)
    timer,      \* the setTimeout timer: "none", "pending", "cleared", "fired"
    aborted,    \* controller.signal.aborted
    fetchSt,    \* the fetch promise: "none", "inflight", "resolved", "rejected", "aborted"
    upstream,   \* what the upstream has sent so far: [status, statusText, body]
    responses,  \* response objects returned by the handler (a sequence)
    escaped,    \* TRUE when an exception left the handler
    logs        \* texts written through console.log / warn / error

vars == <<pc, event, envKey, request, timer, aborted, fetchSt, upstream,
          responses, escaped, logs>>

----------------------------------------------------------------------------
(* Bounds *)

\* longest candidates / parts array the modelled upstream sends
MaxArr == 2

----------------------------------------------------------------------------
(* JavaScript values *)

Undefined == [t |-> "undefined"]
Null      == [t |-> "null"]
Str(s)    == [t |-> "str", s |-> s]
Num(n)    == [t |-> "num", n |-> n]
Bool(b)   == [t |-> "bool", b |-> b]
Arr(a)    == [t |-> "arr", a |-> a]
Obj(o)    == [t |-> "obj", o |-> o]
EmptyObj  == Obj(<<>>)

\* the result of evaluating an expression that throws a TypeError
Thrown    == [t |-> "throw"]
IsThrow(v) == v.t = "throw"

\* ToBoolean, as used by `!prompt`, `!API_KEY`, `a && b` and `c ? x : y`
Truthy(v) ==
    CASE v.t = "undefined" -> FALSE
      [] v.t = "null"      -> FALSE
      [] v.t = "bool"      -> v.b
      [] v.t = "num"       -> v.n # 0
      [] v.t = "str"       -> v.s # ""
      [] OTHER             -> TRUE

\* property read v.k (v[k] with a name)
GetProp(v, k) ==
    CASE v.t = "throw"     -> Thrown
      [] v.t = "undefined" -> Thrown
      [] v.t = "null"      -> Thrown
      [] v.t = "obj"       -> IF k \in DOMAIN v.o THEN v.o[k] ELSE Undefined
      [] v.t = "arr"       -> IF k = "length" THEN Num(Len(v.a)) ELSE Undefined
      [] v.t = "str"       -> IF k = "length" THEN Num(Len(v.s)) ELSE Undefined
      [] OTHER             -> Undefined

\* element read v[0]
Index0(v) ==
    CASE v.t = "throw"     -> Thrown
      [] v.t = "undefined" -> Thrown
      [] v.t = "null"      -> Thrown
      [] v.t = "arr"       -> IF Len(v.a) > 0 THEN v.a[1] ELSE Undefined
      [] v.t = "str"       -> IF Len(v.s) > 0 THEN Str(SubSeq(v.s, 1, 1)) ELSE Undefined
      [] v.t = "obj"       -> IF "0" \in DOMAIN v.o THEN v.o["0"] ELSE Undefined
      [] OTHER             -> Undefined

\* the comparison `v > 0` on the value of a .length read
GT0(v) ==
    CASE v.t = "num"  -> v.n > 0
      [] v.t = "bool" -> v.b
      [] OTHER        -> FALSE

\* JSON.stringify of an object literal: a property holding undefined is left out
JSONStringify(o) ==
    [k \in {j \in DOMAIN o : o[j] # Undefined} |-> o[k]]

\* JSON.parse of a text: a text is [wf |-> FALSE] when it is not JSON
\* (undefined included) and [wf |-> TRUE, val |-> v] when it denotes v
JSONParse(text) ==
    IF text.wf THEN [ok |-> TRUE, val |-> text.val]
    ELSE [ok |-> FALSE, name |-> "SyntaxError",
          message |-> "Unexpected token < in JSON at position 0"]

\* TRUE when the text s holds the non-empty text k
Contains(s, k) ==
    /\ Len(k) > 0
    /\ \E i \in 1..(Len(s) - Len(k) + 1) : SubSeq(s, i, i + Len(k) - 1) = k

TypeErrorMessage == "Cannot read properties of undefined"

----------------------------------------------------------------------------
(* Results of a stretch of handler code: it returns a response, throws, or *)
(* goes on; each result carries the lines it logged                         *)

Return(status, obj, lg) ==
    [kind |-> "return", logs |-> lg,
     resp |-> [statusCode |-> status, body |-> JSONStringify(obj)]]
Throw(name, message, lg) ==
    [kind |-> "throw", logs |-> lg, err |-> [name |-> name, message |-> message]]

----------------------------------------------------------------------------
(* Inputs of one invocation *)

Methods == {"POST", "GET", "OPTIONS"}

PromptValues ==
    {Str(""), Str("hi"), Null, Num(0), Num(5), Bool(FALSE), Bool(TRUE),
     Arr(<<>>), EmptyObj}

RequestJson ==
    {Null, Num(5), Str("hi"), Arr(<<>>), EmptyObj}
    \cup {Obj([prompt |-> p]) : p \in PromptValues}

\* event.body
RequestBodies ==
    {[wf |-> FALSE]} \cup {[wf |-> TRUE, val |-> v] : v \in RequestJson}

\* process.env.GEMINI_API_KEY
EnvKeys == {Undefined, Str(""), Str("S3CR3T")}

----------------------------------------------------------------------------
(* Steps 1 to 4: the checks made before the upstream call *)

R405 ==
    [statusCode |-> 405,
     body |-> [message |-> Str("Method Not Allowed. This function only accepts POST requests.")]]
R400Json ==
    [statusCode |-> 400, body |-> [message |-> Str("Invalid JSON body.")]]
R400Prompt ==
    [statusCode |-> 400,
     body |-> [message |-> Str("Prompt is required in the request body.")]]
R500Key ==
    [statusCode |-> 500,
     body |-> [message |-> Str("Server API key is not configured. Please set GEMINI_API_KEY in Netlify environment variables.")]]

\* the try / catch around JSON.parse(event.body) and body.prompt
ParseBody(text) ==
    LET parsed == JSONParse(text)
        prompt == GetProp(parsed.val, "prompt")
        len    == IF Truthy(prompt) THEN GetProp(prompt, "length") ELSE Str("0")
    IN  IF ~parsed.ok
        THEN Return(400, R400Json.body,
                    {"Error parsing request body: " \o parsed.message})
        ELSE IF IsThrow(prompt) \/ IsThrow(len)
        THEN Return(400, R400Json.body,
                    {"Error parsing request body: " \o TypeErrorMessage})
        ELSE [kind |-> "ok", prompt |-> prompt,
              logs |-> {"Request body parsed. Prompt length:"}]

\* PreCall without the prompt check
PreCall_NoPromptCheck(ev, key) ==
    IF ev.httpMethod # "POST"
    THEN Return(405, R405.body, {"Method Not Allowed: " \o ev.httpMethod})
    ELSE LET p == ParseBody(ev.body) IN
         IF p.kind # "ok" THEN p
         ELSE IF ~Truthy(key)
         THEN Return(500, R500Key.body, p.logs)
         ELSE [kind |-> "call", prompt |-> p.prompt, logs |-> p.logs]

\* PreCall with the credential check made before the body is parsed
PreCall_KeyFirst(ev, key) ==
    IF ev.httpMethod # "POST"
    THEN Return(405, R405.body, {"Method Not Allowed: " \o ev.httpMethod})
    ELSE IF ~Truthy(key)
    THEN Return(500, R500Key.body, {})
    ELSE LET p == ParseBody(ev.body) IN
         IF p.kind # "ok" THEN p
         ELSE IF ~Truthy(p.prompt)
         THEN Return(400, R400Prompt.body, p.logs)
         ELSE [kind |-> "call", prompt |-> p.prompt, logs |-> p.logs]

\* method check, body parse, prompt check, credential check, in this order
PreCall(ev, key) ==
    IF ev.httpMethod # "POST"
    THEN Return(405, R405.body, {"Method Not Allowed: " \o ev.httpMethod})
    ELSE LET p == ParseBody(ev.body) IN
         IF p.kind # "ok" THEN p
         ELSE IF ~Truthy(p.prompt)
         THEN Return(400, R400Prompt.body,
                     p.logs \cup {"Prompt is missing from request body."})
         ELSE IF ~Truthy(key)
         THEN Return(500, R500Key.body,
                     p.logs \cup {"GEMINI_API_KEY environment variable is not set on Netlify."})
         ELSE [kind |-> "call", prompt |-> p.prompt,
               logs |-> p.logs \cup {"API Key retrieved successfully (masked for security)."}]

----------------------------------------------------------------------------
(* Steps 5 and 6: the upstream request *)

API_MODEL == "gemini-2.5-flash-preview-05-20"

UrlLogLen == 70

\* ${v} in a template literal
TemplateText(v) ==
    CASE v.t = "str"       -> v.s
      [] v.t = "undefined" -> "undefined"
      [] v.t = "null"      -> "null"
      [] OTHER             -> "[object]"

ApiUrl(key) ==
    "https://generativelanguage.googleapis.com/v1beta/models/" \o API_MODEL
        \o ":generateContent?key=" \o TemplateText(key)

\* apiUrl.substring(0, 70) + '...'
UrlLogPrefix(url) ==
    SubSeq(url, 1, IF Len(url) < UrlLogLen THEN Len(url) ELSE UrlLogLen) \o "..."

Payload(prompt) ==
    Obj([contents |->
            Arr(<<Obj([role |-> Str("user"),
                       parts |-> Arr(<<Obj([text |-> prompt])>>)])>>)])

\* the argument list of fetch
BuildRequest(prompt, key) ==
    [url |-> ApiUrl(key), method |-> "POST",
     contentType |-> "application/json", body |-> Payload(prompt)]

CallLogs(url) ==
    {"Gemini API URL constructed: " \o UrlLogPrefix(url),
     "Payload prepared for Gemini API.",
     "Attempting fetch call to Gemini API with 20-second timeout..."}

----------------------------------------------------------------------------
(* What the upstream and the fetch library can do *)

\* status and status text of an upstream answer
StatusLines ==
    {<<200, "OK">>, <<400, "Bad Request">>, <<429, "Too Many Requests">>,
     <<503, "Service Unavailable">>}

\* response.ok
ResponseOk(status) == status >= 200 /\ status < 300

RECURSIVE SeqsUpTo(_, _)
\* the sequences over S of length 0..n
SeqsUpTo(S, n) ==
    IF n = 0 THEN {<<>>}
    ELSE LET shorter == SeqsUpTo(S, n - 1)
         IN  shorter \cup {Append(q, x) : q \in shorter, x \in S}

PartValues == {EmptyObj, Obj([text |-> Str("hello")])}

ContentValues ==
    {EmptyObj} \cup {Obj([parts |-> Arr(ps)]) : ps \in SeqsUpTo(PartValues, MaxArr)}

CandidateValues ==
    {Null, EmptyObj} \cup {Obj([content |-> c]) : c \in ContentValues}

\* JSON values an upstream success body can denote
ResultValues ==
    {Null, EmptyObj}
    \cup {Obj([candidates |-> Arr(cs)]) : cs \in SeqsUpTo(CandidateValues, MaxArr)}

\* JSON values an upstream error body can denote
ErrorValues ==
    {Obj([error |-> Str("rate limited")]), Str("overloaded")}

UpstreamJson == ResultValues \cup ErrorValues

\* message of the error fetch rejects with on a transport failure: node-fetch
\* names the request URL in it, the built-in fetch does not
FetchFailureMessages(url) ==
    {"request to " \o url \o " failed, reason: connect ECONNREFUSED",
     "fetch failed"}

\* message of the error response.json() rejects with on a body that is not
\* JSON: node-fetch names the response URL in it, the built-in fetch does not
JsonFailureMessages(url) ==
    {"invalid json response body at " \o url
        \o " reason: Unexpected token < in JSON at position 0",
     "Unexpected token < in JSON at position 0"}

AbortMessage == "The user aborted a request."

----------------------------------------------------------------------------
(* Steps 7 to 9: what the handler does with the upstream's answer *)

RTimeout ==
    [statusCode |-> 504,
     body |-> [message |-> Str("AI service call timed out. Please try again.")]]

FinallyLog == "Function execution finished (or caught error)."

\* Catch rethrowing what is not an AbortError
Catch_Rethrow(error) ==
    IF error.name = "AbortError"
    THEN Return(504, [message |-> Str("AI service call timed out. Please try again.")],
                {FinallyLog})
    ELSE Throw(error.name, error.message, {FinallyLog})

\* Catch testing for a name the abort never carries
Catch_WrongAbortName(error) ==
    IF error.name = "TimeoutError"
    THEN Return(504, [message |-> Str("AI service call timed out. Please try again.")],
                {FinallyLog})
    ELSE Return(500,
                [message |-> Str("Failed to connect to the AI service due to a server-side error."),
                 error   |-> Str(error.message)],
                {FinallyLog})

\* the catch block
Catch(error) ==
    IF error.name = "AbortError"
    THEN Return(504, RTimeout.body,
                {"AI API call timed out after 20 seconds. " \o error.message, FinallyLog})
    ELSE Return(500,
                [message |-> Str("Failed to connect to the AI service due to a server-side error."),
                 error   |-> Str(error.message)],
                {"Network or unexpected error during AI API call (caught in try-catch): "
                    \o error.message, FinallyLog})

\* the if / else that reads candidates[0].content.parts[0].text
ExtractText(result) ==
    LET Empty  == Return(200, [text |-> Str("")],
                         {"Gemini API returned an unexpected structure or no text:", FinallyLog})
        Fail   == Throw("TypeError", TypeErrorMessage, {})
        cands  == GetProp(result, "candidates")
        cont   == GetProp(Index0(cands), "content")
        parts  == GetProp(cont, "parts")
        text   == GetProp(Index0(parts), "text")
        len    == GetProp(text, "length")
    IN  IF IsThrow(cands) THEN Fail
        ELSE IF ~Truthy(cands) THEN Empty
        ELSE IF ~GT0(GetProp(cands, "length")) THEN Empty
        ELSE IF IsThrow(cont) THEN Fail
        ELSE IF ~Truthy(cont) THEN Empty
        ELSE IF ~Truthy(parts) THEN Empty
        ELSE IF ~GT0(GetProp(parts, "length")) THEN Empty
        ELSE IF IsThrow(text) \/ IsThrow(len) THEN Fail
        ELSE Return(200, [text |-> text],
                    {"Generated text extracted successfully. Length:", FinallyLog})

\* the handler from the settling of response.json() on a body that is JSON
AfterJson(status, statusText, val) ==
    IF ~ResponseOk(status)
    THEN Return(status,
                [message |-> Str("Error from AI service: " \o statusText),
                 details |-> val],
                {"Error calling Gemini API: Non-OK response. " \o statusText, FinallyLog})
    ELSE LET r == ExtractText(val) IN
         IF r.kind = "throw" THEN Catch(r.err) ELSE r

----------------------------------------------------------------------------
(* The state machine *)

Init ==
    /\ pc = "start"
    /\ event \in [httpMethod : Methods, body : RequestBodies]
    /\ envKey \in EnvKeys
    /\ request = <<>>
    /\ timer = "none"
    /\ aborted = FALSE
    /\ fetchSt = "none"
    /\ upstream = [head |-> <<>>, body |-> <<>>]
    /\ responses = <<>>
    /\ escaped = FALSE
    /\ logs = {"Function invoked: Starting generate-risk.js execution."}

\* the handler ends with the result r: a returned response or an exception
\* that leaves it
Finish(r) ==
    /\ pc' = "done"
    /\ responses' = IF r.kind = "return" THEN Append(responses, r.resp) ELSE responses
    /\ escaped' = (r.kind = "throw")
    /\ logs' = logs \cup r.logs

\* the platform calls the handler, which runs up to its first await or return
Invoke ==
    /\ pc = "start"
    /\ LET r == PreCall(event, envKey) IN
       IF r.kind = "call"
       THEN /\ request' = Append(request, BuildRequest(r.prompt, envKey))
            /\ timer' = "pending"
            /\ fetchSt' = "inflight"
            /\ pc' = "await_fetch"
            /\ logs' = logs \cup r.logs \cup CallLogs(ApiUrl(envKey))
            /\ UNCHANGED <<responses, escaped>>
       ELSE /\ Finish(r)
            /\ UNCHANGED <<request, timer, fetchSt>>
    /\ UNCHANGED <<event, envKey, aborted, upstream>>

\* the upstream answers with a status line: fetch resolves, the handler clears
\* the timer and awaits response.json()
FetchResolves(line) ==
    /\ pc = "await_fetch"
    /\ fetchSt = "inflight"
    /\ fetchSt' = "resolved"
    /\ upstream' = [upstream EXCEPT !.head = <<[status |-> line[1], statusText |-> line[2]]>>]
    /\ timer' = "cleared"
    /\ pc' = "await_json"
    /\ logs' = logs \cup {"Fetch response received from Gemini API. Status:"}
    /\ UNCHANGED <<event, envKey, request, aborted, responses, escaped>>

\* the connection fails: fetch rejects and the handler runs its catch block
FetchFails ==
    /\ pc = "await_fetch"
    /\ fetchSt = "inflight"
    /\ fetchSt' = "rejected"
    /\ \E message \in FetchFailureMessages(request[1].url) :
           Finish(Catch([name |-> "FetchError", message |-> message]))
    /\ UNCHANGED <<event, envKey, request, timer, aborted, upstream>>

\* the 20 seconds have passed: controller.abort(); a fetch still in flight
\* rejects with an AbortError and the handler runs its catch block
TimerFires ==
    /\ timer = "pending"
    /\ timer' = "fired"
    /\ aborted' = TRUE
    /\ IF fetchSt = "inflight"
       THEN /\ fetchSt' = "aborted"
            /\ Finish(Catch([name |-> "AbortError", message |-> AbortMessage]))
       ELSE UNCHANGED <<fetchSt, pc, responses, escaped, logs>>
    /\ UNCHANGED <<event, envKey, request, upstream>>

\* the body has been read and is JSON: response.json() resolves
BodyArrives(val) ==
    /\ pc = "await_json"
    /\ upstream' = [upstream EXCEPT !.body = <<[wf |-> TRUE, val |-> val]>>]
    /\ Finish(AfterJson(upstream.head[1].status, upstream.head[1].statusText,
                        JSONParse([wf |-> TRUE, val |-> val]).val))
    /\ UNCHANGED <<event, envKey, request, timer, aborted, fetchSt>>

\* the body has been read and is not JSON: response.json() rejects
BodyUnparseable ==
    /\ pc = "await_json"
    /\ upstream' = [upstream EXCEPT !.body = <<[wf |-> FALSE]>>]
    /\ \E message \in JsonFailureMessages(request[1].url) :
           Finish(Catch([name |-> "FetchError", message |-> message]))
    /\ UNCHANGED <<event, envKey, request, timer, aborted, fetchSt>>

Next ==
    \/ Invoke
    \/ \E line \in StatusLines : FetchResolves(line)
    \/ FetchFails
    \/ TimerFires
    \/ \E v \in UpstreamJson : BodyArrives(v)
    \/ BodyUnparseable

Spec == Init /\ [][Next]_vars

\* the event loop runs the handler and lets a pending timer fire; nothing
\* obliges the upstream to answer
FairSpec == Spec /\ WF_vars(Invoke) /\ WF_vars(TimerFires)

----------------------------------------------------------------------------
(* Vocabulary of the properties *)

Ended == pc = "done"
CallIssued == request # <<>>
Answered == upstream.head # <<>>
UpstreamStatus == upstream.head[1].status
BodyRead == upstream.body # <<>>

\* a response object: a status code and a serialised JSON object
WellFormed(r) ==
    /\ DOMAIN r = {"statusCode", "body"}
    /\ r.statusCode \in 100..599
    /\ DOMAIN r.body # {}
    /\ \A k \in DOMAIN r.body : r.body[k] # Undefined

\* the request body denotes an object whose prompt is a non-empty string
HasStringPrompt(v) ==
    /\ v.t = "obj"
    /\ "prompt" \in DOMAIN v.o
    /\ v.o["prompt"].t = "str"
    /\ v.o["prompt"].s # ""

\* the statement `prompt = body.prompt` completes and leaves a truthy prompt
PromptAccepted ==
    /\ event.body.wf
    /\ ~IsThrow(GetProp(event.body.val, "prompt"))
    /\ Truthy(GetProp(event.body.val, "prompt"))

\* the text at candidates[0].content.parts[0].text, "" when the path is absent
PathText(v) ==
    IF /\ v.t = "obj" /\ "candidates" \in DOMAIN v.o
       /\ v.o["candidates"].t = "arr" /\ Len(v.o["candidates"].a) > 0
    THEN LET c == v.o["candidates"].a[1] IN
         IF /\ c.t = "obj" /\ "content" \in DOMAIN c.o
            /\ c.o["content"].t = "obj" /\ "parts" \in DOMAIN c.o["content"].o
            /\ c.o["content"].o["parts"].t = "arr"
            /\ Len(c.o["content"].o["parts"].a) > 0
         THEN LET q == c.o["content"].o["parts"].a[1] IN
              IF q.t = "obj" /\ "text" \in DOMAIN q.o THEN q.o["text"] ELSE Str("")
         ELSE Str("")
    ELSE Str("")

\* the credential shows in a text of the response body or in a logged line
CredentialShown ==
    \/ \E l \in logs : Contains(l, envKey.s)
    \/ \E i \in 1..Len(responses) : \E k \in DOMAIN responses[i].body :
          /\ responses[i].body[k].t = "str"
          /\ Contains(responses[i].body[k].s, envKey.s)

----------------------------------------------------------------------------
(* Properties *)

\* C1: an invocation that has ended has returned exactly one well-formed
\* response (a status code and a JSON body), on every path, and no exception
\* has left the handler; before it ends nothing has been returned.
C1_OneResponseNoThrow ==
    /\ escaped = FALSE
    /\ Len(responses) <= 1
    /\ (Ended => Len(responses) = 1 /\ WellFormed(responses[1]))
    /\ (~Ended => responses = <<>>)

\* a transport failure has been turned into a response
C1_Witness ==
    /\ Ended
    /\ fetchSt = "rejected"
    /\ Len(responses) = 1
    /\ responses[1].statusCode = 500

\* C2: the credential read from GEMINI_API_KEY never shows in the response
\* body nor in a logged line.
C2_CredentialNeverShown ==
    (envKey.t = "str" /\ envKey.s # "") => ~CredentialShown

\* C3: when the upstream answered with a non-success status s, the handler
\* returns status s with message and details, whether or not the upstream
\* body is JSON.
C3_MirrorsStatus ==
    (Ended /\ Answered /\ ~ResponseOk(UpstreamStatus)) =>
        /\ Len(responses) = 1
        /\ responses[1].statusCode = UpstreamStatus
        /\ {"message", "details"} \subseteq DOMAIN responses[1].body

\* C4: when the upstream answered with a success status and a JSON body, the
\* handler returns 200 with {text: t}, t the text at
\* candidates[0].content.parts[0].text and "" when the path is absent.
C4_TextOrEmpty ==
    (Ended /\ Answered /\ ResponseOk(UpstreamStatus) /\ BodyRead /\ upstream.body[1].wf) =>
        responses = <<[statusCode |-> 200,
                       body |-> [text |-> PathText(upstream.body[1].val)]]>>

\* C5: when the timer fires while the upstream call is in flight, the call is
\* aborted through the signal and the handler returns the 504 response and no
\* other.
C5_TimeoutAborts ==
    /\ [](fetchSt = "aborted" =>
            aborted /\ timer = "fired" /\ Ended /\ responses = <<RTimeout>>)
    /\ [][(timer = "pending" /\ fetchSt = "inflight" /\ timer' = "fired") =>
            (aborted' /\ fetchSt' = "aborted" /\ pc' = "done"
                /\ responses' = <<RTimeout>>)]_vars

\* the timer has fired on a call in flight
C5_Witness ==
    /\ fetchSt = "aborted"
    /\ timer = "fired"
    /\ Ended

\* C6: once the upstream call is issued the handler eventually returns,
\* whatever the upstream does.
C6_BoundedWait == CallIssued ~> Ended

\* C7: an upstream call is issued, and the timer armed, only if the method is
\* POST, the body parsed, the prompt passed validation and the credential is
\* present; an invocation ending in the 405, a 400 or the missing-credential
\* 500 response issued no call and armed no timer.
C7_CallNeedsAllChecks ==
    /\ (CallIssued \/ timer # "none" \/ fetchSt # "none") =>
          /\ event.httpMethod = "POST"
          /\ PromptAccepted
          /\ Truthy(envKey)
    /\ (Ended /\ responses \in {<<R405>>, <<R400Json>>, <<R400Prompt>>, <<R500Key>>}) =>
          /\ ~CallIssued
          /\ timer = "none"
          /\ fetchSt = "none"

\* a call has been issued and the timer armed
C7_Witness ==
    /\ CallIssued
    /\ timer = "pending"
    /\ pc = "await_fetch"

\* C8: a POST whose body is JSON but holds no non-empty string prompt gets
\* status 400 and no upstream call.
C8_NonStringPromptRejected ==
    (pc # "start" /\ event.httpMethod = "POST" /\ event.body.wf
        /\ ~HasStringPrompt(event.body.val)) =>
        /\ ~CallIssued
        /\ Ended
        /\ Len(responses) = 1
        /\ responses[1].statusCode = 400

\* C9: the response is that of the first failing check in the order method,
\* JSON parse, prompt, credential: a non-POST gets the 405 whatever else, a
\* POST with a bad body or prompt gets a 400 whatever the credential, and the
\* missing-credential 500 is returned only after the three other checks passed.
C9_FirstFailingCheck ==
    /\ (pc # "start" /\ event.httpMethod # "POST") =>
          (Ended /\ responses = <<R405>>)
    /\ (pc # "start" /\ event.httpMethod = "POST" /\ ~PromptAccepted) =>
          (Ended /\ responses \in {<<R400Json>>, <<R400Prompt>>})
    /\ (responses = <<R500Key>>) =>
          (event.httpMethod = "POST" /\ PromptAccepted /\ ~Truthy(envKey))
    /\ (pc # "start" /\ event.httpMethod = "POST" /\ PromptAccepted /\ ~Truthy(envKey)) =>
          (Ended /\ responses = <<R500Key>>)

\* a POST failing both the parse and the credential check got the 400
C9_Witness ==
    /\ Ended
    /\ event.httpMethod = "POST"
    /\ ~event.body.wf
    /\ ~Truthy(envKey)
    /\ responses = <<R400Json>>

\* C10: when the handler has returned, the timer it armed is no longer pending.
C10_TimerSettledAtReturn ==
    Ended => timer # "pending"

====
